---- MODULE Spec2Model ----
(***************************************************************************)
(* The scaffolding CLI create-react-tailwind-app-router, version 3.0.0     *)
(* (src/unnamed/part_008): the command handler as a state machine.         *)
(*                                                                         *)
(* Strings on which the code works character by character (the project    *)
(* name, template-relative paths) are sequences of one-character strings;  *)
(* strings that are only compared (template keys, folder names, messages)  *)
(* are TLA+ strings.                                                       *)
(***************************************************************************)
EXTENDS Integers, Sequences, FiniteSets, TLC

VARIABLES
    args,              \* per invocation: the positional argument and the parsed options
    pc,                \* per invocation: the handler's position
    projectName,       \* per invocation: the handler's projectName variable
    selectedTemplate,  \* per invocation: the handler's selectedTemplate variable
    promptError,       \* per invocation: the validation message the open prompt shows
    prompts,           \* per invocation: the prompts issued so far, in order
    out,               \* per invocation: the lines printed so far, in order
    writes,            \* per invocation: the filesystem writes made so far, in order
    children,          \* per invocation: the child processes spawned so far, in order
    exitCode,          \* per invocation: the exit code, meaningful once pc = "exited"
    disk,              \* the current working directory: its directories and their files
    templatesRoot,     \* the packaged templates directory: its folders and their files
    disk0,             \* history: the working directory as the invocations found it
    answers,           \* per invocation: the answers given to the confirmations, in order
    error              \* per invocation: the error thrown inside the try block, if any

vars == <<args, pc, projectName, selectedTemplate, promptError, prompts, out,
          writes, children, exitCode, disk, templatesRoot, disk0, answers,
          error>>

----------------------------------------------------------------------------
(* Bounds of the model *)

MaxNameLen == 2

(* JavaScript's undefined, for an option string and for a character string *)
undefined == "<undefined>"
undefinedName == <<"<undefined>">>

(* !s, for an option string and for a character string *)
FalsyOption(s) == s = undefined \/ s = ""
FalsyName(s) == s = undefinedName \/ s = <<>>

----------------------------------------------------------------------------
(* Character strings *)

LowerCase == {"a","b","c","d","e","f","g","h","i","j","k","l","m",
              "n","o","p","q","r","s","t","u","v","w","x","y","z"}
UpperCase == {"A","B","C","D","E","F","G","H","I","J","K","L","M",
              "N","O","P","Q","R","S","T","U","V","W","X","Y","Z"}
Digits == {"0","1","2","3","4","5","6","7","8","9"}
WhiteSpace == {" ", "\t", "\n"}

(* s.includes(needle) *)
Includes(s, needle) ==
    \E i \in 1..(Len(s) - Len(needle) + 1) :
        SubSeq(s, i, i + Len(needle) - 1) = needle

RECURSIVE TrimStart(_)
TrimStart(s) ==
    IF s # <<>> /\ Head(s) \in WhiteSpace THEN TrimStart(Tail(s)) ELSE s

RECURSIVE TrimEnd(_)
TrimEnd(s) ==
    IF s # <<>> /\ s[Len(s)] \in WhiteSpace
    THEN TrimEnd(SubSeq(s, 1, Len(s) - 1)) ELSE s

(* input.trim() *)
Trim(s) == TrimEnd(TrimStart(s))

(* every string over alphabet A of length at most n *)
RECURSIVE StringsUpTo(_, _)
StringsUpTo(A, n) ==
    IF n = 0 THEN {<<>>}
    ELSE LET shorter == StringsUpTo(A, n - 1)
         IN  shorter \cup {Append(s, c) : s \in shorter, c \in A}

----------------------------------------------------------------------------
(* Step 1: the project name *)

MyApp == <<"m","y","-","a","p","p">>

(* the expression without its anchors: /[a-zA-Z0-9-_]+/.test(s) *)
NameRegexTestUnanchored(s) ==
    \E i \in 1..Len(s) : s[i] \in LowerCase \cup UpperCase \cup Digits \cup {"-", "_"}

(* the expression with the dot in its class: /^[a-zA-Z0-9-_.]+$/.test(s) *)
NameRegexTestWithDot(s) ==
    /\ Len(s) >= 1
    /\ \A i \in 1..Len(s) : s[i] \in LowerCase \cup UpperCase \cup Digits \cup {"-", "_", "."}

(* /^[a-zA-Z0-9-_]+$/.test(s) *)
NameRegexTest(s) ==
    /\ Len(s) >= 1
    /\ \A i \in 1..Len(s) : s[i] \in LowerCase \cup UpperCase \cup Digits \cup {"-", "_"}

(* the validate callback of the project-name prompt: "ok" stands for true,
   any other value is the message shown before the prompt asks again *)
PromptValidate(input) ==
    LET trimmed == Trim(input)
    IN  IF trimmed = <<>> THEN "Project name cannot be empty"
        ELSE IF ~NameRegexTest(trimmed)
             THEN "Project name can only contain letters, numbers, hyphens, and underscores"
             ELSE "ok"

----------------------------------------------------------------------------
(* Step 2: the template catalog and the selection *)

templates ==
    [k \in {"jsx-basic", "javascript", "typescript"} |->
        CASE k = "jsx-basic"  -> [name |-> "JavaScript (JSX) Basic", folder |-> "template-jsx-basic"]
          [] k = "javascript" -> [name |-> "JavaScript (JSX)", folder |-> "template-jsx"]
          [] k = "typescript" -> [name |-> "TypeScript (TSX)", folder |-> "template-tsx"]]

(* Object.keys(templates): the keys in the order the literal lists them *)
ObjectKeys == <<"jsx-basic", "javascript", "typescript">>

(* keys.join(', ') *)
RECURSIVE Join(_)
Join(keys) ==
    IF keys = <<>> THEN ""
    ELSE IF Len(keys) = 1 THEN keys[1]
    ELSE keys[1] \o ", " \o Join(Tail(keys))

(* path.resolve(__dirname, '../templates', folder), the package directory
   written <package> *)
TemplateDirOf(folder) == "<package>/templates/" \o folder

(* lines 114-115: the two lines printed when the template folder is missing *)
TemplateNotFoundLine(key, templateDir) ==
    "Template " \o key \o " not found at " \o templateDir
AvailableTemplatesLine == "Available templates: " \o Join(ObjectKeys)

(* property names every object literal inherits from Object.prototype *)
InheritedKeys == {"constructor"}

(* templates[key]: an own entry, an inherited property (truthy, with no
   folder), or undefined *)
TemplatesLookup(key) ==
    IF key \in DOMAIN templates
    THEN [isUndefined |-> FALSE, name |-> templates[key].name, folder |-> templates[key].folder]
    ELSE IF key \in InheritedKeys
         THEN [isUndefined |-> FALSE, name |-> "Object", folder |-> undefined]
         ELSE [isUndefined |-> TRUE, name |-> undefined, folder |-> undefined]

(* the shorthand flags read in another order: js before typescript *)
SelectFromFlagsJsFirst(options) ==
    IF options.js THEN "javascript"
    ELSE IF options.typescript THEN "typescript"
    ELSE IF options.basic THEN "jsx-basic"
    ELSE options.template

(* lines 76-79: the value of selectedTemplate after the flags are read *)
SelectFromFlags(options) ==
    IF options.typescript THEN "typescript"
    ELSE IF options.js THEN "javascript"
    ELSE IF options.basic THEN "jsx-basic"
    ELSE options.template

(* line 81: whether the template menu is shown *)
NeedsTemplatePrompt(sel, options) ==
    (FalsyOption(sel) \/ TemplatesLookup(sel).isUndefined) /\ ~options.yes

(* line 95 *)
OrDefaultTemplate(sel) == IF FalsyOption(sel) THEN "javascript" ELSE sel

----------------------------------------------------------------------------
(* Step 4: the recursive copy and its filter.  A path is a sequence of
   segments, each a character string; a directory tree is the set of its
   files, <<path, content>>. *)

NodeModules == <<"n","o","d","e","_","m","o","d","u","l","e","s">>
DotGit == <<".","g","i","t">>
Dist == <<"d","i","s","t">>
PackageJson == <<"p","a","c","k","a","g","e",".","j","s","o","n">>

(* path.relative(templateDir, src), for src at `path` below templateDir *)
RECURSIVE RelativePath(_)
RelativePath(path) ==
    IF path = <<>> THEN <<>>
    ELSE IF Len(path) = 1 THEN path[1]
    ELSE path[1] \o <<"/">> \o RelativePath(Tail(path))

(* a filter that looks at the first segment of the relative path only *)
CopyFilterTopLevel(path) ==
    \/ path = <<>>
    \/ /\ ~Includes(path[1], NodeModules)
       /\ ~Includes(path[1], DotGit)
       /\ ~Includes(path[1], Dist)

(* lines 121-126: the filter callback *)
CopyFilter(path) ==
    LET relativePath == RelativePath(path)
    IN  /\ ~Includes(relativePath, NodeModules)
        /\ ~Includes(relativePath, DotGit)
        /\ ~Includes(relativePath, Dist)

(* fs.copy walks the tree from templateDir down and asks the filter about
   every directory before descending and about every file before copying *)
WalkReaches(path) ==
    \A k \in 0..Len(path) : CopyFilter(SubSeq(path, 1, k))

(* fs.copy(templateDir, targetDir, {filter}): the files written *)
CopyTree(tree) == {f \in tree : WalkReaches(f[1])}

(* the files of one directory `dir` of a file system `fs` *)
TreeOf(fs, dir) == {<<f[2], f[3]>> : f \in {g \in fs.files : g[1] = dir}}

(* `fs` after `tree` is written below `dir`, existing files overwritten *)
WriteTree(fs, dir, tree) ==
    [fs EXCEPT !.files =
        {g \in @ : ~(g[1] = dir /\ \E f \in tree : f[1] = g[2])}
        \cup {<<dir, f[1], f[2]>> : f \in tree}]

(* fs.ensureDir(dir) *)
EnsureDirIn(fs, dir) == [fs EXCEPT !.dirs = @ \cup {dir}]

(* the content of the file at `path` of `tree` *)
ContentAt(tree, path) == (CHOOSE f \in tree : f[1] = path)[2]
HasFile(tree, path) == \E f \in tree : f[1] = path

----------------------------------------------------------------------------
(* Step 5: package.json.  A file's content is its text: whether it is a
   well-formed JSON object, the members as written (key, value, in order,
   keys possibly repeated), the indentation, and a tag for everything else
   in the bytes. *)

Text(json, members, spaces, raw) ==
    [json |-> json, members |-> members, spaces |-> spaces, raw |-> raw]

Keys(members) == {members[i][1] : i \in 1..Len(members)}

(* the value JSON.parse keeps for key k: the last one written *)
ValueOf(members, k) ==
    LET last == CHOOSE i \in 1..Len(members) :
                    /\ members[i][1] = k
                    /\ \A j \in (i + 1)..Len(members) : members[j][1] # k
    IN  members[last][2]

(* fs.readJson: the object, as its properties in insertion order (a key's
   place is that of its first occurrence, its value that of the last) *)
RECURSIVE ParseMembers(_, _)
ParseMembers(members, i) ==
    IF i > Len(members) THEN <<>>
    ELSE IF \E j \in 1..(i - 1) : members[j][1] = members[i][1]
         THEN ParseMembers(members, i + 1)
         ELSE <<<<members[i][1], ValueOf(members, members[i][1])>>>>
              \o ParseMembers(members, i + 1)

ReadJson(text) == ParseMembers(text.members, 1)

(* an object rebuilt with the name alone *)
SetNameOnly(object, value) == << <<"name", value>> >>

(* packageJson.name = projectName *)
SetName(object, value) ==
    IF "name" \in Keys(object)
    THEN [i \in 1..Len(object) |->
            IF object[i][1] = "name" THEN <<"name", value>> ELSE object[i]]
    ELSE Append(object, <<"name", value>>)

(* fs.writeJson(path, object, { spaces: 2 }) *)
WriteJson(object) == Text(TRUE, object, 2, "")

----------------------------------------------------------------------------
(* The handler's steps *)

(* the invocations *)
Procs == {"cli"}

Options(p) == args[p].options
TargetDir(p) == projectName[p]
TemplateConfig(p) == TemplatesLookup(selectedTemplate[p])

ConsoleLog(p, lines) == out' = [out EXCEPT ![p] = @ \o lines]
Ask(p, question) == prompts' = [prompts EXCEPT ![p] = Append(@, question)]
Goto(p, label) == pc' = [pc EXCEPT ![p] = label]
Answer(p, question, value) ==
    answers' = [answers EXCEPT ![p] = Append(@, [name |-> question, value |-> value])]
Throw(p, label, e) ==
    /\ pc' = [pc EXCEPT ![p] = label]
    /\ error' = [error EXCEPT ![p] = e]
Exit(p, code) ==
    /\ pc' = [pc EXCEPT ![p] = "exited"]
    /\ exitCode' = [exitCode EXCEPT ![p] = code]

(* lines 52-53: is the project name asked for? *)
StepProjectName(p) ==
    /\ pc[p] = "name"
    /\ IF FalsyName(projectName[p]) /\ ~Options(p).yes
       THEN Ask(p, "projectName") /\ Goto(p, "promptName")
       ELSE Goto(p, "checkName") /\ UNCHANGED prompts
    /\ UNCHANGED <<args, projectName, selectedTemplate, promptError, out, writes,
                   children, exitCode, disk, templatesRoot, disk0, answers, error>>

(* what the user may type at the project-name prompt *)
PromptAlphabet == {"a", " "}
PromptInputs == StringsUpTo(PromptAlphabet, MaxNameLen)

(* an awaited prompt whose promise rejects (the input stream is closed, the
   prompt is interrupted): the rejection is thrown into the try block *)
PromptRejects(p) == Throw(p, "catch", "PromptError")

(* lines 54-65: the prompt asks again while validate returns a message; the
   answer is the input as typed *)
PromptProjectName(p) ==
    /\ pc[p] = "promptName"
    /\ \/ \E input \in PromptInputs :
             \/ /\ PromptValidate(input) = "ok"
                /\ projectName' = [projectName EXCEPT ![p] = input]
                /\ promptError' = [promptError EXCEPT ![p] = ""]
                /\ Goto(p, "checkName")
                /\ UNCHANGED error
             \/ /\ PromptValidate(input) # "ok"
                /\ promptError' = [promptError EXCEPT ![p] = PromptValidate(input)]
                /\ UNCHANGED <<projectName, pc, error>>
       \/ PromptRejects(p) /\ UNCHANGED <<projectName, promptError>>
    /\ UNCHANGED <<args, selectedTemplate, prompts, out, writes, children,
                   exitCode, disk, templatesRoot, disk0, answers>>

(* a name check that asks again instead of exiting *)
CheckProjectNameAsksAgain(p) ==
    /\ pc[p] = "checkName"
    /\ LET name == IF FalsyName(projectName[p]) THEN MyApp ELSE projectName[p]
       IN  /\ projectName' = [projectName EXCEPT ![p] = name]
           /\ IF ~NameRegexTest(name)
              THEN ConsoleLog(p, <<"Invalid project name">>) /\ Goto(p, "promptName")
              ELSE Goto(p, "template") /\ UNCHANGED out
    /\ UNCHANGED <<args, selectedTemplate, promptError, prompts, writes, children,
                   exitCode, disk, templatesRoot, disk0, answers, error>>

(* lines 68-73: the default name and the project name check *)
CheckProjectName(p) ==
    /\ pc[p] = "checkName"
    /\ LET name == IF FalsyName(projectName[p]) THEN MyApp ELSE projectName[p]
       IN  /\ projectName' = [projectName EXCEPT ![p] = name]
           /\ IF ~NameRegexTest(name)
              THEN ConsoleLog(p, <<"Invalid project name">>) /\ Exit(p, 1)
              ELSE Goto(p, "template") /\ UNCHANGED <<out, exitCode>>
    /\ UNCHANGED <<args, selectedTemplate, promptError, prompts, writes, children,
                   disk, templatesRoot, disk0, answers, error>>

(* lines 76-81: the flags are read; is the template asked for? *)
SelectTemplate(p) ==
    /\ pc[p] = "template"
    /\ LET sel == SelectFromFlags(Options(p))
       IN  /\ selectedTemplate' = [selectedTemplate EXCEPT ![p] = sel]
           /\ IF NeedsTemplatePrompt(sel, Options(p))
              THEN Ask(p, "template") /\ Goto(p, "promptTemplate")
              ELSE Goto(p, "config") /\ UNCHANGED prompts
    /\ UNCHANGED <<args, projectName, promptError, out, writes, children,
                   exitCode, disk, templatesRoot, disk0, answers, error>>

(* lines 82-92: the menu offers the catalog keys *)
PromptTemplate(p) ==
    /\ pc[p] = "promptTemplate"
    /\ \/ /\ \E choice \in DOMAIN templates :
                selectedTemplate' = [selectedTemplate EXCEPT ![p] = choice]
          /\ Goto(p, "config")
          /\ UNCHANGED error
       \/ PromptRejects(p) /\ UNCHANGED selectedTemplate
    /\ UNCHANGED <<args, projectName, promptError, prompts, out, writes, children,
                   exitCode, disk, templatesRoot, disk0, answers>>

(* lines 95-101: the default key, the catalog lookup and the two banner
   lines; templateConfig.name throws when the lookup gave undefined *)
ResolveTemplateConfig(p) ==
    /\ pc[p] = "config"
    /\ LET sel == OrDefaultTemplate(selectedTemplate[p])
           templateConfig == TemplatesLookup(sel)
       IN  /\ selectedTemplate' = [selectedTemplate EXCEPT ![p] = sel]
           /\ IF templateConfig.isUndefined
              THEN ConsoleLog(p, <<"Creating React app">>) /\ Throw(p, "catch", "TypeError")
              ELSE ConsoleLog(p, <<"Creating React app", "Using template">>)
                   /\ Goto(p, "dirCheck") /\ UNCHANGED error
    /\ UNCHANGED <<args, projectName, promptError, prompts, writes, children,
                   exitCode, disk, templatesRoot, disk0, answers>>

(* DirectoryCheck without its process.exit(1) *)
DirectoryCheckNoExit(p) ==
    /\ pc[p] = "dirCheck"
    /\ IF TargetDir(p) \in disk.dirs
       THEN ConsoleLog(p, <<"Directory already exists">>)
       ELSE UNCHANGED out
    /\ Goto(p, "ensureDir")
    /\ UNCHANGED <<args, projectName, selectedTemplate, promptError, prompts,
                   writes, children, exitCode, disk, templatesRoot, disk0, answers, error>>

(* a check that makes the directory in the same step, when it is not there *)
DirectoryCheckAndCreate(p) ==
    /\ pc[p] = "dirCheck"
    /\ IF TargetDir(p) \in disk.dirs
       THEN ConsoleLog(p, <<"Directory already exists">>) /\ Exit(p, 1) /\ UNCHANGED disk
       ELSE /\ Goto(p, "ensureDir")
            /\ disk' = EnsureDirIn(disk, TargetDir(p))
            /\ UNCHANGED <<out, exitCode>>
    /\ UNCHANGED <<args, projectName, selectedTemplate, promptError, prompts,
                   writes, children, templatesRoot, disk0, answers, error>>

(* lines 103-107 *)
DirectoryCheck(p) ==
    /\ pc[p] = "dirCheck"
    /\ IF TargetDir(p) \in disk.dirs
       THEN ConsoleLog(p, <<"Directory already exists">>) /\ Exit(p, 1)
       ELSE Goto(p, "ensureDir") /\ UNCHANGED <<out, exitCode>>
    /\ UNCHANGED <<args, projectName, selectedTemplate, promptError, prompts,
                   writes, children, disk, templatesRoot, disk0, answers, error>>

FsWrite(p, op, arg) ==
    writes' = [writes EXCEPT ![p] = Append(@, [op |-> op, arg |-> arg])]

(* line 110: the directory is made, or the operating system refuses *)
EnsureDir(p) ==
    /\ pc[p] = "ensureDir"
    /\ \/ /\ disk' = EnsureDirIn(disk, TargetDir(p))
          /\ FsWrite(p, "ensureDir", "")
          /\ Goto(p, "templateCheck")
          /\ UNCHANGED error
       \/ /\ Throw(p, "catch", "EIO")
          /\ UNCHANGED <<disk, writes>>
    /\ UNCHANGED <<args, projectName, selectedTemplate, promptError, prompts, out,
                   children, exitCode, templatesRoot, disk0, answers>>

(* TemplateCheck without its process.exit(1) *)
TemplateCheckNoExit(p) ==
    /\ pc[p] = "templateCheck"
    /\ LET folder == TemplateConfig(p).folder
       IN  IF folder = undefined
           THEN Throw(p, "catch", "TypeError") /\ UNCHANGED out
           ELSE IF folder \notin templatesRoot.dirs
                THEN ConsoleLog(p, <<TemplateNotFoundLine(selectedTemplate[p], TemplateDirOf(folder)),
                                     AvailableTemplatesLine, "Copying template files">>)
                     /\ Goto(p, "copy") /\ UNCHANGED error
                ELSE ConsoleLog(p, <<"Copying template files">>)
                     /\ Goto(p, "copy") /\ UNCHANGED error
    /\ UNCHANGED <<args, projectName, selectedTemplate, promptError, prompts,
                   writes, children, exitCode, disk, templatesRoot, disk0, answers>>

(* lines 111-119: path.resolve throws on a folder that is undefined *)
TemplateCheck(p) ==
    /\ pc[p] = "templateCheck"
    /\ LET folder == TemplateConfig(p).folder
       IN  IF folder = undefined
           THEN Throw(p, "catch", "TypeError") /\ UNCHANGED <<out, exitCode>>
           ELSE IF folder \notin templatesRoot.dirs
                THEN ConsoleLog(p, <<TemplateNotFoundLine(selectedTemplate[p], TemplateDirOf(folder)),
                                     AvailableTemplatesLine>>)
                     /\ Exit(p, 1) /\ UNCHANGED error
                ELSE ConsoleLog(p, <<"Copying template files">>)
                     /\ Goto(p, "copy") /\ UNCHANGED <<exitCode, error>>
    /\ UNCHANGED <<args, projectName, selectedTemplate, promptError, prompts,
                   writes, children, disk, templatesRoot, disk0, answers>>

(* lines 120-127: the copy is made, or it rejects on an I/O error after
   some of the files are written *)
CopyTemplate(p) ==
    /\ pc[p] = "copy"
    /\ LET templateDir == TemplateConfig(p).folder
           tree == CopyTree(TreeOf(templatesRoot, templateDir))
       IN  \/ /\ disk' = WriteTree(disk, TargetDir(p), tree)
              /\ FsWrite(p, "copy", templateDir)
              /\ Goto(p, "packageJson")
              /\ UNCHANGED error
           \/ /\ \E partial \in SUBSET tree : disk' = WriteTree(disk, TargetDir(p), partial)
              /\ FsWrite(p, "copy failed", templateDir)
              /\ Throw(p, "catch", "EIO")
    /\ UNCHANGED <<args, projectName, selectedTemplate, promptError, prompts, out,
                   children, exitCode, templatesRoot, disk0, answers>>

(* a rewrite of package.json that is also made in the template's directory *)
UpdatePackageJsonAtSource(p) ==
    /\ pc[p] = "packageJson"
    /\ LET tree == TreeOf(disk, TargetDir(p))
       IN  IF ~HasFile(tree, <<PackageJson>>)
           THEN Goto(p, "install") /\ UNCHANGED <<disk, writes, out, error, templatesRoot>>
           ELSE LET text == ContentAt(tree, <<PackageJson>>)
                IN  IF ~text.json
                    THEN Throw(p, "catch", "SyntaxError")
                         /\ UNCHANGED <<disk, writes, out, templatesRoot>>
                    ELSE LET packageJson == SetName(ReadJson(text), projectName[p])
                             written == {<<(<<PackageJson>>), WriteJson(packageJson)>>}
                         IN  /\ disk' = WriteTree(disk, TargetDir(p), written)
                             /\ templatesRoot' =
                                    WriteTree(templatesRoot, TemplateConfig(p).folder, written)
                             /\ FsWrite(p, "writeJson", "package.json")
                             /\ ConsoleLog(p, <<"Updated package.json">>)
                             /\ Goto(p, "install")
                             /\ UNCHANGED error
    /\ UNCHANGED <<args, projectName, selectedTemplate, promptError, prompts,
                   children, exitCode, disk0, answers>>

(* lines 129-136: readJson throws on text that is not JSON; writeJson
   writes the file, or rejects on an I/O error and leaves it as it was *)
UpdatePackageJson(p) ==
    /\ pc[p] = "packageJson"
    /\ LET tree == TreeOf(disk, TargetDir(p))
       IN  IF ~HasFile(tree, <<PackageJson>>)
           THEN Goto(p, "install") /\ UNCHANGED <<disk, writes, out, error>>
           ELSE LET text == ContentAt(tree, <<PackageJson>>)
                IN  IF ~text.json
                    THEN Throw(p, "catch", "SyntaxError") /\ UNCHANGED <<disk, writes, out>>
                    ELSE LET packageJson == SetName(ReadJson(text), projectName[p])
                         IN  \/ /\ disk' = WriteTree(disk, TargetDir(p),
                                               {<<(<<PackageJson>>), WriteJson(packageJson)>>})
                                /\ FsWrite(p, "writeJson", "package.json")
                                /\ ConsoleLog(p, <<"Updated package.json">>)
                                /\ Goto(p, "install")
                                /\ UNCHANGED error
                             \/ /\ Throw(p, "catch", "EIO")
                                /\ UNCHANGED <<disk, writes, out>>
    /\ UNCHANGED <<args, projectName, selectedTemplate, promptError, prompts,
                   children, exitCode, templatesRoot, disk0, answers>>

(* an execSync whose exception is caught on the spot: the handler goes on *)
ExecSyncSwallows(p, command, status, next) ==
    /\ children' = [children EXCEPT ![p] = Append(@, [command |-> command, status |-> status])]
    /\ IF status = 0
       THEN Goto(p, next) /\ UNCHANGED error
       ELSE Throw(p, next, "Command failed")

(* execSync(command, {cwd: targetDir, stdio: 'inherit'}): the child runs to
   its end and execSync throws when its exit status is not 0.  What the
   child itself writes is the child's business, not the tool's. *)
ExecSync(p, command, status, next) ==
    /\ children' = [children EXCEPT ![p] = Append(@, [command |-> command, status |-> status])]
    /\ IF status = 0
       THEN Goto(p, next) /\ UNCHANGED error
       ELSE Throw(p, "catch", "Command failed")

ExitStatuses == {0, 1}

(* InstallStep asking for confirmation whether or not --yes is given *)
InstallStepAsksAnyway(p) ==
    /\ pc[p] = "install"
    /\ IF Options(p).install
       THEN Goto(p, "npmInstall") /\ UNCHANGED prompts
       ELSE Ask(p, "install") /\ Goto(p, "promptInstall")
    /\ UNCHANGED <<args, projectName, selectedTemplate, promptError, out, writes,
                   children, exitCode, disk, templatesRoot, disk0, answers, error>>

(* line 139: --install, else the confirmation unless --yes *)
InstallStep(p) ==
    /\ pc[p] = "install"
    /\ IF Options(p).install
       THEN Goto(p, "npmInstall") /\ UNCHANGED prompts
       ELSE IF ~Options(p).yes
            THEN Ask(p, "install") /\ Goto(p, "promptInstall")
            ELSE Goto(p, "git") /\ UNCHANGED prompts
    /\ UNCHANGED <<args, projectName, selectedTemplate, promptError, out, writes,
                   children, exitCode, disk, templatesRoot, disk0, answers, error>>

(* PromptInstall taking any answer for a yes *)
PromptInstallIgnoresAnswer(p) ==
    /\ pc[p] = "promptInstall"
    /\ \E install \in BOOLEAN :
          /\ Answer(p, "install", install)
          /\ Goto(p, "npmInstall")
    /\ UNCHANGED <<args, projectName, selectedTemplate, promptError, prompts, out,
                   writes, children, exitCode, disk, templatesRoot, disk0, error>>

(* lines 139-144: the answer to the confirmation *)
PromptInstall(p) ==
    /\ pc[p] = "promptInstall"
    /\ \/ \E install \in BOOLEAN :
             /\ Answer(p, "install", install)
             /\ IF install THEN Goto(p, "npmInstall") ELSE Goto(p, "git")
             /\ UNCHANGED error
       \/ PromptRejects(p) /\ UNCHANGED answers
    /\ UNCHANGED <<args, projectName, selectedTemplate, promptError, prompts, out,
                   writes, children, exitCode, disk, templatesRoot, disk0>>

(* lines 145-146 *)
NpmInstall(p) ==
    /\ pc[p] = "npmInstall"
    /\ ConsoleLog(p, <<"Installing dependencies">>)
    /\ \E status \in ExitStatuses : ExecSync(p, "npm install", status, "git")
    /\ UNCHANGED <<args, projectName, selectedTemplate, promptError, prompts,
                   writes, exitCode, disk, templatesRoot, disk0, answers>>

(* GitStep asking for confirmation whether or not --git is given *)
GitStepAsksAnyway(p) ==
    /\ pc[p] = "git"
    /\ IF ~Options(p).yes
       THEN Ask(p, "git") /\ Goto(p, "promptGit")
       ELSE IF Options(p).git
            THEN Goto(p, "gitInit") /\ UNCHANGED prompts
            ELSE Goto(p, "summary") /\ UNCHANGED prompts
    /\ UNCHANGED <<args, projectName, selectedTemplate, promptError, out, writes,
                   children, exitCode, disk, templatesRoot, disk0, answers, error>>

(* line 150: --git, else the confirmation unless --yes *)
GitStep(p) ==
    /\ pc[p] = "git"
    /\ IF Options(p).git
       THEN Goto(p, "gitInit") /\ UNCHANGED prompts
       ELSE IF ~Options(p).yes
            THEN Ask(p, "git") /\ Goto(p, "promptGit")
            ELSE Goto(p, "summary") /\ UNCHANGED prompts
    /\ UNCHANGED <<args, projectName, selectedTemplate, promptError, out, writes,
                   children, exitCode, disk, templatesRoot, disk0, answers, error>>

(* lines 150-155: the answer to the confirmation *)
PromptGit(p) ==
    /\ pc[p] = "promptGit"
    /\ \/ \E git \in BOOLEAN :
             /\ Answer(p, "git", git)
             /\ IF git THEN Goto(p, "gitInit") ELSE Goto(p, "summary")
             /\ UNCHANGED error
       \/ PromptRejects(p) /\ UNCHANGED answers
    /\ UNCHANGED <<args, projectName, selectedTemplate, promptError, prompts, out,
                   writes, children, exitCode, disk, templatesRoot, disk0>>

(* lines 156-157 *)
GitInit(p) ==
    /\ pc[p] = "gitInit"
    /\ ConsoleLog(p, <<"Initializing git repository">>)
    /\ \E status \in ExitStatuses : ExecSync(p, "git init", status, "gitAdd")
    /\ UNCHANGED <<args, projectName, selectedTemplate, promptError, prompts,
                   writes, exitCode, disk, templatesRoot, disk0, answers>>

(* line 158 *)
GitAdd(p) ==
    /\ pc[p] = "gitAdd"
    /\ \E status \in ExitStatuses : ExecSync(p, "git add .", status, "gitCommit")
    /\ UNCHANGED <<args, projectName, selectedTemplate, promptError, prompts, out,
                   writes, exitCode, disk, templatesRoot, disk0, answers>>

(* GitCommit followed by the install that has not been made yet *)
GitCommitThenInstall(p) ==
    /\ pc[p] = "gitCommit"
    /\ \E status \in ExitStatuses :
          ExecSync(p, "git commit", status,
                   IF \E i \in 1..Len(children[p]) : children[p][i].command = "npm install"
                   THEN "summary" ELSE "npmInstall")
    /\ UNCHANGED <<args, projectName, selectedTemplate, promptError, prompts, out,
                   writes, exitCode, disk, templatesRoot, disk0, answers>>

(* line 159 *)
GitCommit(p) ==
    /\ pc[p] = "gitCommit"
    /\ \E status \in ExitStatuses : ExecSync(p, "git commit", status, "summary")
    /\ UNCHANGED <<args, projectName, selectedTemplate, promptError, prompts, out,
                   writes, exitCode, disk, templatesRoot, disk0, answers>>

(* lines 162-166, after which the handler returns and the process ends *)
Summary(p) ==
    /\ pc[p] = "summary"
    /\ ConsoleLog(p, <<"created successfully", "Next steps", "cd">>
                     \o (IF ~Options(p).install THEN <<"npm install">> ELSE <<>>)
                     \o <<"npm run dev">>)
    /\ Exit(p, 0)
    /\ UNCHANGED <<args, projectName, selectedTemplate, promptError, prompts,
                   writes, children, disk, templatesRoot, disk0, answers, error>>

(* a catch that reports the error and lets the handler go on *)
CatchErrorResumes(p) ==
    /\ pc[p] = "catch"
    /\ ConsoleLog(p, <<"Error creating project">>)
    /\ Goto(p, "install")
    /\ UNCHANGED <<args, projectName, selectedTemplate, promptError, prompts,
                   writes, children, exitCode, disk, templatesRoot, disk0, answers, error>>

(* a catch that removes the target directory before it exits *)
CatchErrorRollsBack(p) ==
    /\ pc[p] = "catch"
    /\ ConsoleLog(p, <<"Error creating project">>)
    /\ Exit(p, 1)
    /\ disk' = [dirs |-> disk.dirs \ {TargetDir(p)},
                files |-> {f \in disk.files : f[1] # TargetDir(p)}]
    /\ UNCHANGED <<args, projectName, selectedTemplate, promptError, prompts,
                   writes, children, templatesRoot, disk0, answers, error>>

(* lines 167-170 *)
CatchError(p) ==
    /\ pc[p] = "catch"
    /\ ConsoleLog(p, <<"Error creating project">>)
    /\ Exit(p, 1)
    /\ UNCHANGED <<args, projectName, selectedTemplate, promptError, prompts,
                   writes, children, disk, templatesRoot, disk0, answers, error>>

Next ==
    \E p \in Procs :
        \/ StepProjectName(p)
        \/ PromptProjectName(p)
        \/ CheckProjectName(p)
        \/ SelectTemplate(p)
        \/ PromptTemplate(p)
        \/ ResolveTemplateConfig(p)
        \/ DirectoryCheck(p)
        \/ EnsureDir(p)
        \/ TemplateCheck(p)
        \/ CopyTemplate(p)
        \/ UpdatePackageJson(p)
        \/ InstallStep(p)
        \/ PromptInstall(p)
        \/ NpmInstall(p)
        \/ GitStep(p)
        \/ PromptGit(p)
        \/ GitInit(p)
        \/ GitAdd(p)
        \/ GitCommit(p)
        \/ Summary(p)
        \/ CatchError(p)

----------------------------------------------------------------------------
(* The two earlier command lines the package still ships:
   bin/create-react-tailwind-app-router.js (2.0.0) and
   bin/create-react-vite-app.js (1.0.0).  Their handlers have their own
   positions ("v2.*", "v1.*"); their template folders lie beside the
   templates directory, so they are written "../<folder>". *)

templatesV2 ==
    [k \in {"javascript", "typescript"} |->
        CASE k = "javascript" -> [name |-> "JavaScript (JSX)", folder |-> "../template"]
          [] k = "typescript" -> [name |-> "TypeScript (TSX)", folder |-> "../template-tsx"]]

TemplatesLookupV2(key) ==
    IF key \in DOMAIN templatesV2
    THEN [isUndefined |-> FALSE, name |-> templatesV2[key].name, folder |-> templatesV2[key].folder]
    ELSE IF key \in InheritedKeys
         THEN [isUndefined |-> FALSE, name |-> "Object", folder |-> undefined]
         ELSE [isUndefined |-> TRUE, name |-> undefined, folder |-> undefined]

LegacyFolders == {"../template", "../template-tsx"}

(* 2.0.0, lines 37-38 *)
V2StepProjectName(p) ==
    /\ pc[p] = "v2.name"
    /\ IF FalsyName(projectName[p])
       THEN Ask(p, "projectName") /\ Goto(p, "v2.promptName")
       ELSE Goto(p, "v2.template") /\ UNCHANGED prompts
    /\ UNCHANGED <<args, projectName, selectedTemplate, promptError, out, writes,
                   children, exitCode, disk, templatesRoot, disk0, answers, error>>

(* 2.0.0, lines 39-47: validate accepts whatever is not blank *)
V2PromptProjectName(p) ==
    /\ pc[p] = "v2.promptName"
    /\ \E input \in PromptInputs :
          \/ /\ Trim(input) # <<>>
             /\ projectName' = [projectName EXCEPT ![p] = input]
             /\ promptError' = [promptError EXCEPT ![p] = ""]
             /\ Goto(p, "v2.template")
          \/ /\ Trim(input) = <<>>
             /\ promptError' = [promptError EXCEPT ![p] = "Project name cannot be empty"]
             /\ UNCHANGED <<projectName, pc>>
    /\ UNCHANGED <<args, selectedTemplate, prompts, out, writes, children,
                   exitCode, disk, templatesRoot, disk0, answers, error>>

(* 2.0.0, lines 50-59 *)
V2SelectTemplate(p) ==
    /\ pc[p] = "v2.template"
    /\ LET sel == IF Options(p).typescript THEN "typescript" ELSE Options(p).template
       IN  /\ selectedTemplate' = [selectedTemplate EXCEPT ![p] = sel]
           /\ IF FalsyOption(sel) \/ TemplatesLookupV2(sel).isUndefined
              THEN Ask(p, "template") /\ Goto(p, "v2.promptTemplate")
              ELSE Goto(p, "v2.config") /\ UNCHANGED prompts
    /\ UNCHANGED <<args, projectName, promptError, out, writes, children,
                   exitCode, disk, templatesRoot, disk0, answers, error>>

(* 2.0.0, lines 60-72 *)
V2PromptTemplate(p) ==
    /\ pc[p] = "v2.promptTemplate"
    /\ \E choice \in DOMAIN templatesV2 :
          selectedTemplate' = [selectedTemplate EXCEPT ![p] = choice]
    /\ Goto(p, "v2.config")
    /\ UNCHANGED <<args, projectName, promptError, prompts, out, writes, children,
                   exitCode, disk, templatesRoot, disk0, answers, error>>

(* 2.0.0, lines 75-79 *)
V2Banner(p) ==
    /\ pc[p] = "v2.config"
    /\ ConsoleLog(p, <<"Creating React app", "Using template">>)
    /\ Goto(p, "v2.dirCheck")
    /\ UNCHANGED <<args, projectName, selectedTemplate, promptError, prompts, writes,
                   children, exitCode, disk, templatesRoot, disk0, answers, error>>

(* 2.0.0, lines 81-85 *)
V2DirectoryCheck(p) ==
    /\ pc[p] = "v2.dirCheck"
    /\ IF TargetDir(p) \in disk.dirs
       THEN ConsoleLog(p, <<"Directory already exists">>) /\ Exit(p, 1)
       ELSE Goto(p, "v2.ensureDir") /\ UNCHANGED <<out, exitCode>>
    /\ UNCHANGED <<args, projectName, selectedTemplate, promptError, prompts,
                   writes, children, disk, templatesRoot, disk0, answers, error>>

(* 2.0.0, line 88 *)
V2EnsureDir(p) ==
    /\ pc[p] = "v2.ensureDir"
    /\ disk' = EnsureDirIn(disk, TargetDir(p))
    /\ FsWrite(p, "ensureDir", "")
    /\ Goto(p, "v2.templateCheck")
    /\ UNCHANGED <<args, projectName, selectedTemplate, promptError, prompts, out,
                   children, exitCode, templatesRoot, disk0, answers, error>>

(* 2.0.0, lines 89-96: path.join throws on a folder that is undefined *)
V2TemplateCheck(p) ==
    /\ pc[p] = "v2.templateCheck"
    /\ LET folder == TemplatesLookupV2(selectedTemplate[p]).folder
       IN  IF folder = undefined
           THEN Throw(p, "v2.catch", "TypeError") /\ UNCHANGED <<out, exitCode>>
           ELSE IF folder \notin templatesRoot.dirs
                THEN ConsoleLog(p, <<"Template not found">>) /\ Exit(p, 1)
                     /\ UNCHANGED error
                ELSE ConsoleLog(p, <<"Copying template files">>)
                     /\ Goto(p, "v2.copy") /\ UNCHANGED <<exitCode, error>>
    /\ UNCHANGED <<args, projectName, selectedTemplate, promptError, prompts,
                   writes, children, disk, templatesRoot, disk0, answers>>

(* 2.0.0, line 97: the whole tree, no filter *)
V2CopyTemplate(p) ==
    /\ pc[p] = "v2.copy"
    /\ LET templateDir == TemplatesLookupV2(selectedTemplate[p]).folder
       IN  /\ disk' = WriteTree(disk, TargetDir(p), TreeOf(templatesRoot, templateDir))
           /\ FsWrite(p, "copy", templateDir)
    /\ Goto(p, "v2.packageJson")
    /\ UNCHANGED <<args, projectName, selectedTemplate, promptError, prompts, out,
                   children, exitCode, templatesRoot, disk0, answers, error>>

(* 2.0.0, lines 99-103, and 1.0.0, lines 34-38: readJson throws when the
   file is missing or is not JSON *)
LegacyUpdatePackageJson(p, next, catch) ==
    /\ LET tree == TreeOf(disk, TargetDir(p))
       IN  IF ~HasFile(tree, <<PackageJson>>)
           THEN Throw(p, catch, "ENOENT") /\ UNCHANGED <<disk, writes>>
           ELSE IF ~ContentAt(tree, <<PackageJson>>).json
           THEN Throw(p, catch, "SyntaxError") /\ UNCHANGED <<disk, writes>>
           ELSE LET packageJson ==
                        SetName(ReadJson(ContentAt(tree, <<PackageJson>>)), projectName[p])
                IN  /\ disk' = WriteTree(disk, TargetDir(p),
                                   {<<(<<PackageJson>>), WriteJson(packageJson)>>})
                    /\ FsWrite(p, "writeJson", "package.json")
                    /\ Goto(p, next)
                    /\ UNCHANGED error
    /\ UNCHANGED <<args, projectName, selectedTemplate, promptError, prompts, out,
                   children, exitCode, templatesRoot, disk0, answers>>

V2UpdatePackageJson(p) ==
    /\ pc[p] = "v2.packageJson"
    /\ LegacyUpdatePackageJson(p, "v2.summary", "v2.catch")

(* 2.0.0, lines 105-136 *)
V2Summary(p) ==
    /\ pc[p] = "v2.summary"
    /\ ConsoleLog(p, <<"created successfully", "Next steps", "cd", "npm install", "npm run dev">>)
    /\ Exit(p, 0)
    /\ UNCHANGED <<args, projectName, selectedTemplate, promptError, prompts,
                   writes, children, disk, templatesRoot, disk0, answers, error>>

(* 2.0.0, lines 137-140 *)
V2CatchError(p) ==
    /\ pc[p] = "v2.catch"
    /\ ConsoleLog(p, <<"Error creating project">>)
    /\ Exit(p, 1)
    /\ UNCHANGED <<args, projectName, selectedTemplate, promptError, prompts,
                   writes, children, disk, templatesRoot, disk0, answers, error>>

(* 1.0.0, lines 17-25 *)
V1DirectoryCheck(p) ==
    /\ pc[p] = "v1.dirCheck"
    /\ IF TargetDir(p) \in disk.dirs
       THEN ConsoleLog(p, <<"Creating React app", "Directory already exists">>) /\ Exit(p, 1)
       ELSE ConsoleLog(p, <<"Creating React app">>)
            /\ Goto(p, "v1.ensureDir") /\ UNCHANGED exitCode
    /\ UNCHANGED <<args, projectName, selectedTemplate, promptError, prompts,
                   writes, children, disk, templatesRoot, disk0, answers, error>>

(* 1.0.0, line 28 *)
V1EnsureDir(p) ==
    /\ pc[p] = "v1.ensureDir"
    /\ disk' = EnsureDirIn(disk, TargetDir(p))
    /\ FsWrite(p, "ensureDir", "")
    /\ Goto(p, "v1.copy")
    /\ UNCHANGED <<args, projectName, selectedTemplate, promptError, prompts, out,
                   children, exitCode, templatesRoot, disk0, answers, error>>

(* 1.0.0, lines 31-32: fs.copy throws when the template folder is missing *)
V1CopyTemplate(p) ==
    /\ pc[p] = "v1.copy"
    /\ IF "../template" \notin templatesRoot.dirs
       THEN Throw(p, "v1.catch", "ENOENT") /\ UNCHANGED <<disk, writes>>
       ELSE /\ disk' = WriteTree(disk, TargetDir(p), TreeOf(templatesRoot, "../template"))
            /\ FsWrite(p, "copy", "../template")
            /\ Goto(p, "v1.packageJson")
            /\ UNCHANGED error
    /\ UNCHANGED <<args, projectName, selectedTemplate, promptError, prompts, out,
                   children, exitCode, templatesRoot, disk0, answers>>

V1UpdatePackageJson(p) ==
    /\ pc[p] = "v1.packageJson"
    /\ LegacyUpdatePackageJson(p, "v1.summary", "v1.catch")

(* 1.0.0, lines 40-48 *)
V1Summary(p) ==
    /\ pc[p] = "v1.summary"
    /\ ConsoleLog(p, <<"created successfully", "Next steps", "cd", "npm install", "npm run dev">>)
    /\ Exit(p, 0)
    /\ UNCHANGED <<args, projectName, selectedTemplate, promptError, prompts,
                   writes, children, disk, templatesRoot, disk0, answers, error>>

(* 1.0.0, lines 50-53 *)
V1CatchError(p) ==
    /\ pc[p] = "v1.catch"
    /\ ConsoleLog(p, <<"Error creating project">>)
    /\ Exit(p, 1)
    /\ UNCHANGED <<args, projectName, selectedTemplate, promptError, prompts,
                   writes, children, disk, templatesRoot, disk0, answers, error>>

NextLegacy ==
    \E p \in Procs :
        \/ V2StepProjectName(p)
        \/ V2PromptProjectName(p)
        \/ V2SelectTemplate(p)
        \/ V2PromptTemplate(p)
        \/ V2Banner(p)
        \/ V2DirectoryCheck(p)
        \/ V2EnsureDir(p)
        \/ V2TemplateCheck(p)
        \/ V2CopyTemplate(p)
        \/ V2UpdatePackageJson(p)
        \/ V2Summary(p)
        \/ V2CatchError(p)
        \/ V1DirectoryCheck(p)
        \/ V1EnsureDir(p)
        \/ V1CopyTemplate(p)
        \/ V1UpdatePackageJson(p)
        \/ V1Summary(p)
        \/ V1CatchError(p)

NextAllClis == Next \/ NextLegacy

----------------------------------------------------------------------------
(* The states an invocation can start in *)

Folders == {templates[k].folder : k \in DOMAIN templates}

(* values of --template: absent, the catalog keys, a key of no catalog entry,
   and a key the catalog object inherits *)
TemplateArgs == {undefined, "jsx-basic", "javascript", "typescript", "vue", "constructor"}

AllOptions ==
    [template : TemplateArgs, typescript : BOOLEAN, js : BOOLEAN, basic : BOOLEAN,
     yes : BOOLEAN, install : BOOLEAN, git : BOOLEAN]

NoFlags ==
    [template |-> undefined, typescript |-> FALSE, js |-> FALSE, basic |-> FALSE,
     yes |-> FALSE, install |-> FALSE, git |-> FALSE]

(* file names of the template trees *)
Src == <<"s","r","c">>
AJs == <<"a",".","j","s">>
Lib == <<"l","i","b">>
GitIgnore == DotGit \o <<"i","g","n","o","r","e">>
GitHub == DotGit \o <<"h","u","b">>
DistanceJs == Dist \o <<"a","n","c","e",".","j","s">>
Keep == <<"k","e","e","p">>

TemplatePaths ==
    { <<Src, AJs>>, <<GitIgnore>>, <<GitHub, AJs>>, <<Src, DistanceJs>>,
      <<NodeModules, AJs>>, <<Src, NodeModules, AJs>>, <<DotGit, AJs>>,
      <<Dist, AJs>>, <<Lib, Dist, AJs>> }

(* package.json texts a template may hold *)
ManifestNamed ==
    Text(TRUE, << <<"name", <<"t">> >>, <<"version", <<"1">> >> >>, 2, "")
ManifestUnnamed ==
    Text(TRUE, << <<"version", <<"1">> >>, <<"private", <<"y">> >> >>, 4, "")
ManifestRepeated ==
    Text(TRUE, << <<"name", <<"t">> >>, <<"version", <<"1">> >>,
                  <<"name", <<"u">> >>, <<"version", <<"2">> >> >>, 2, "")
ManifestBroken == Text(FALSE, <<>>, 0, "{ not json")
Manifests == {ManifestNamed, ManifestUnnamed, ManifestRepeated, ManifestBroken}

(* a templates directory: the folders present, each holding the files at
   `paths` (their bytes tagged with the folder) and the package.json texts
   of `manifest` (none or one) *)
TemplatesRootWith(present, paths, manifest) ==
    [dirs |-> present,
     files |-> {<<d, path, Text(FALSE, <<>>, 0, d)>> : d \in present, path \in paths}
               \cup {<<d, <<PackageJson>>, m>> : d \in present, m \in manifest}]

(* a working directory: the directories present, each with two old files *)
DiskWith(present) ==
    [dirs |-> present,
     files |-> {<<d, <<Keep>>, Text(FALSE, <<>>, 0, "old")>> : d \in present}
               \cup {<<d, <<PackageJson>>, ManifestRepeated>> : d \in present}]

(* every name an invocation of this model can resolve *)
NameAlphabet == {"a", "A", "_", "-", " ", "/"}
ResolvableNames ==
    {MyApp} \cup {s \in StringsUpTo(NameAlphabet \cup PromptAlphabet, MaxNameLen) :
                    NameRegexTest(s)}

(* the directories of a working directory that is not empty: one for every
   name the 3.0.0 command line can resolve and one for every other name the
   earlier command lines accept *)
ExistingDirs ==
    ResolvableNames \cup {s \in PromptInputs : Trim(s) # <<>>} \cup {<<"a", " ">>}

InitAt(entry, names, options, roots, disks) ==
    /\ args \in [Procs -> [projectName : names, options : options]]
    /\ pc = [p \in Procs |-> entry]
    /\ projectName = [p \in Procs |-> args[p].projectName]
    /\ selectedTemplate = [p \in Procs |-> undefined]
    /\ promptError = [p \in Procs |-> ""]
    /\ prompts = [p \in Procs |-> <<>>]
    /\ out = [p \in Procs |-> <<>>]
    /\ writes = [p \in Procs |-> <<>>]
    /\ children = [p \in Procs |-> <<>>]
    /\ exitCode = [p \in Procs |-> 0]
    /\ error = [p \in Procs |-> undefined]
    /\ answers = [p \in Procs |-> <<>>]
    /\ disk \in disks
    /\ disk0 = disk
    /\ templatesRoot \in roots

InitWith(names, options, roots, disks) == InitAt("name", names, options, roots, disks)

(* every combination of flags, on a few names, templates directories and
   working directories *)
Init ==
    InitWith({undefinedName, <<"a", "-">>, <<"a", " ">>},
             AllOptions,
             {TemplatesRootWith(present, {<<Src, AJs>>, <<GitIgnore>>, <<NodeModules, AJs>>}, manifest) :
                 present \in {Folders, Folders \ {"template-jsx"}},
                 manifest \in {{ManifestNamed}, {ManifestBroken}, {}}},
             {DiskWith({}), DiskWith(ExistingDirs)})

Spec == Init /\ [][Next]_vars

(* every set of template files with every package.json, on an interactive
   and a scripted invocation *)
Scripted ==
    [NoFlags EXCEPT !.template = "typescript", !.yes = TRUE, !.install = TRUE, !.git = TRUE]

InitCopy ==
    InitWith({undefinedName, <<"A", "-">>},
             {NoFlags, Scripted},
             {TemplatesRootWith(Folders, paths, manifest) :
                 paths \in SUBSET TemplatePaths,
                 manifest \in {{}} \cup {{m} : m \in Manifests}},
             {DiskWith({})})

(* The handler under its scheduling: it is one async function, so whenever
   it is not finished its next step is taken: an awaited filesystem call
   returns or throws, a child process run by execSync ends, and a prompt is
   answered with an input that its validation accepts (a rejected input
   leaves the handler at the prompt). *)
Progress == Next /\ pc' # pc

SpecLive == Init /\ [][Next]_vars /\ WF_vars(Progress)

SpecCopy == InitCopy /\ [][Next]_vars

(* a working directory that holds other projects, beside which the new one
   is made *)
OtherDirs == {<<"A">>, <<"t">>}

InitFootprint ==
    InitWith({undefinedName, <<"A", "-">>},
             {NoFlags, Scripted},
             {TemplatesRootWith(Folders, paths, manifest) :
                 paths \in SUBSET {<<Src, AJs>>, <<GitIgnore>>, <<Src, NodeModules, AJs>>},
                 manifest \in {{}, {ManifestNamed}, {ManifestBroken}}},
             {DiskWith(OtherDirs), DiskWith(OtherDirs \cup {<<"A", "-">>})})

SpecFootprint == InitFootprint /\ [][Next]_vars

(* positional names written with dots and slashes, in an empty working
   directory *)
PathAlphabet == {"a", "_", "-", ".", "/"}

InitPaths ==
    InitWith({undefinedName} \cup StringsUpTo(PathAlphabet, MaxNameLen),
             {NoFlags, Scripted},
             {TemplatesRootWith(Folders, {<<Src, AJs>>}, {ManifestNamed})},
             {DiskWith({})})

SpecPaths == InitPaths /\ [][Next]_vars

(* path.join(dir, name): the segments of name, split at "/", are added to
   those of dir; an empty segment and "." add nothing, ".." removes the
   last segment *)
RECURSIVE Split(_)
Split(s) ==
    IF s = <<>> THEN << <<>> >>
    ELSE LET rest == Split(Tail(s))
         IN  IF Head(s) = "/"
             THEN << <<>> >> \o rest
             ELSE << <<Head(s)>> \o rest[1] >> \o Tail(rest)

RECURSIVE Normalize(_, _)
Normalize(base, segments) ==
    IF segments = <<>> THEN base
    ELSE LET segment == Head(segments)
         IN  IF segment = <<>> \/ segment = <<".">>
             THEN Normalize(base, Tail(segments))
             ELSE IF segment = <<".", ".">>
                  THEN Normalize(IF base = <<>> THEN base
                                 ELSE SubSeq(base, 1, Len(base) - 1),
                                 Tail(segments))
                  ELSE Normalize(Append(base, segment), Tail(segments))

PathJoin(dir, name) == Normalize(dir, Split(name))

(* process.cwd(), as its segments *)
Cwd == << <<"h">>, <<"w">> >>

(* every positional name within the bound, with and without --yes, --install
   and --git *)
InitNames ==
    InitWith({undefinedName} \cup StringsUpTo(NameAlphabet, MaxNameLen),
             [template : {undefined, "typescript"}, typescript : {FALSE}, js : {FALSE},
              basic : {FALSE}, yes : BOOLEAN, install : BOOLEAN, git : BOOLEAN],
             {TemplatesRootWith(Folders, {<<Src, AJs>>}, {ManifestNamed})},
             {DiskWith({}), DiskWith(ExistingDirs)})

SpecNames == InitNames /\ [][Next]_vars

(* the three command lines, each on the names, flags, templates
   directories and working directories it can be given: 1.0.0 requires the
   name and has no template option *)
LegacyRoots ==
    {TemplatesRootWith(present, {<<Src, AJs>>, <<GitIgnore>>}, manifest) :
        present \in {Folders \cup LegacyFolders, Folders \cup {"../template-tsx"}},
        manifest \in {{ManifestNamed}, {ManifestBroken}, {}}}

InitAllClis ==
    \/ InitAt("name", {undefinedName, <<"a", "-">>, <<"a", " ">>},
              [template : {undefined, "typescript", "vue"}, typescript : BOOLEAN,
               js : {FALSE}, basic : {FALSE}, yes : BOOLEAN, install : BOOLEAN,
               git : BOOLEAN],
              LegacyRoots, {DiskWith({}), DiskWith(ExistingDirs)})
    \/ InitAt("v2.name", {undefinedName, <<"a", "-">>, <<"a", " ">>},
              [template : {undefined, "typescript", "vue", "constructor"},
               typescript : BOOLEAN, js : {FALSE}, basic : {FALSE}, yes : {FALSE},
               install : {FALSE}, git : {FALSE}],
              LegacyRoots, {DiskWith({}), DiskWith(ExistingDirs)})
    \/ InitAt("v1.dirCheck", {<<"a", "-">>, <<"a", " ">>},
              [template : {undefined}, typescript : BOOLEAN, js : {FALSE},
               basic : {FALSE}, yes : {FALSE}, install : {FALSE}, git : {FALSE}],
              LegacyRoots, {DiskWith({}), DiskWith(ExistingDirs)})

SpecAllClis == InitAllClis /\ [][NextAllClis]_vars

----------------------------------------------------------------------------
(* The command line as typed.  program.parse() turns the flags of argv,
   whatever their order, into the options object: a boolean option is true
   when its flag occurs and undefined (falsy) when it does not. *)

Occurs(argv, flag) == \E i \in 1..Len(argv) : argv[i] = flag

(* lines 43-49 and 173 *)
ParseOptions(argv) ==
    [template   |-> undefined,
     typescript |-> Occurs(argv, "--typescript"),
     js         |-> Occurs(argv, "--js"),
     basic      |-> Occurs(argv, "--basic"),
     yes        |-> Occurs(argv, "--yes"),
     install    |-> Occurs(argv, "--install"),
     git        |-> Occurs(argv, "--git")]

(* the orderings of every set of flags among `flags` *)
RECURSIVE Orderings(_)
Orderings(flags) ==
    {<<>>} \cup UNION {{<<f>> \o rest : rest \in Orderings(flags \ {f})} : f \in flags}

ShorthandFlags == {"--typescript", "--js", "--basic"}

(* every ordering of every set of shorthand flags, with and without --yes,
   with the name given or not *)
InitFlags ==
    /\ args \in [Procs ->
                    {[projectName |-> name, argv |-> argv, options |-> ParseOptions(argv)] :
                        name \in {undefinedName, <<"a", "-">>},
                        argv \in Orderings(ShorthandFlags \cup {"--yes"})}]
    /\ pc = [p \in Procs |-> "name"]
    /\ projectName = [p \in Procs |-> args[p].projectName]
    /\ selectedTemplate = [p \in Procs |-> undefined]
    /\ promptError = [p \in Procs |-> ""]
    /\ prompts = [p \in Procs |-> <<>>]
    /\ out = [p \in Procs |-> <<>>]
    /\ writes = [p \in Procs |-> <<>>]
    /\ children = [p \in Procs |-> <<>>]
    /\ exitCode = [p \in Procs |-> 0]
    /\ error = [p \in Procs |-> undefined]
    /\ answers = [p \in Procs |-> <<>>]
    /\ disk \in {DiskWith({}), DiskWith(ExistingDirs)}
    /\ disk0 = disk
    /\ templatesRoot \in {TemplatesRootWith(present, {<<Src, AJs>>}, manifest) :
                              present \in {Folders, Folders \ {"template-jsx"}},
                              manifest \in {{ManifestNamed}, {ManifestBroken}}}

SpecFlags == InitFlags /\ [][Next]_vars

----------------------------------------------------------------------------
(* Two invocations of the 3.0.0 command line at once, in one working
   directory: each is its own process, their awaited steps interleave. *)

RaceProcs == {"cli", "cli2"}

NextRace ==
    \E p \in RaceProcs :
        \/ StepProjectName(p)
        \/ PromptProjectName(p)
        \/ CheckProjectName(p)
        \/ SelectTemplate(p)
        \/ PromptTemplate(p)
        \/ ResolveTemplateConfig(p)
        \/ DirectoryCheck(p)
        \/ EnsureDir(p)
        \/ TemplateCheck(p)
        \/ CopyTemplate(p)
        \/ UpdatePackageJson(p)
        \/ InstallStep(p)
        \/ PromptInstall(p)
        \/ NpmInstall(p)
        \/ GitStep(p)
        \/ PromptGit(p)
        \/ GitInit(p)
        \/ GitAdd(p)
        \/ GitCommit(p)
        \/ Summary(p)
        \/ CatchError(p)

(* the first invocation interactive or scripted, named or not; the second
   scripted and named "a-" *)
InitRace ==
    /\ args \in {[p \in RaceProcs |-> IF p = "cli" THEN first
                                       ELSE [projectName |-> <<"a", "-">>,
                                             options |-> [Scripted EXCEPT !.install = FALSE]]] :
                    first \in [projectName : {undefinedName, <<"a", "-">>},
                               options : {NoFlags, [Scripted EXCEPT !.git = FALSE]}]}
    /\ pc = [p \in RaceProcs |-> "name"]
    /\ projectName = [p \in RaceProcs |-> args[p].projectName]
    /\ selectedTemplate = [p \in RaceProcs |-> undefined]
    /\ promptError = [p \in RaceProcs |-> ""]
    /\ prompts = [p \in RaceProcs |-> <<>>]
    /\ out = [p \in RaceProcs |-> <<>>]
    /\ writes = [p \in RaceProcs |-> <<>>]
    /\ children = [p \in RaceProcs |-> <<>>]
    /\ exitCode = [p \in RaceProcs |-> 0]
    /\ error = [p \in RaceProcs |-> undefined]
    /\ answers = [p \in RaceProcs |-> <<>>]
    /\ disk \in {DiskWith({}), DiskWith(ExistingDirs)}
    /\ disk0 = disk
    /\ templatesRoot \in {TemplatesRootWith(present, {<<Src, AJs>>}, {manifest}) :
                              present \in {Folders, Folders \ {"template-tsx"}},
                              manifest \in {ManifestNamed, ManifestBroken}}

SpecRace == InitRace /\ [][NextRace]_vars

----------------------------------------------------------------------------
(* The two name validations of the 3.0.0 handler, applied to one string:
   the validate callback of the prompt, then the test of line 70, made
   twice.  Each verdict is printed. *)

Verdict(accepted) == IF accepted THEN "accept" ELSE "reject"

(* lines 58-63 *)
ValidateCallback(p) ==
    /\ pc[p] = "validate"
    /\ promptError' = [promptError EXCEPT ![p] = PromptValidate(projectName[p])]
    /\ ConsoleLog(p, <<Verdict(PromptValidate(projectName[p]) = "ok")>>)
    /\ Goto(p, "test")
    /\ UNCHANGED <<args, projectName, selectedTemplate, prompts, writes, children,
                   exitCode, disk, templatesRoot, disk0, answers, error>>

(* line 70 *)
RegexCheck(p) ==
    /\ pc[p] \in {"test", "testAgain"}
    /\ ConsoleLog(p, <<Verdict(NameRegexTest(projectName[p]))>>)
    /\ Goto(p, IF pc[p] = "test" THEN "testAgain" ELSE "tested")
    /\ UNCHANGED <<args, projectName, selectedTemplate, promptError, prompts, writes,
                   children, exitCode, disk, templatesRoot, disk0, answers, error>>

NextValidate == \E p \in Procs : ValidateCallback(p) \/ RegexCheck(p)

(* every string within the bound over letters, a digit, the two marks of
   the class, and characters outside it *)
ValidationAlphabet == {"a", "Z", "0", "_", "-", " ", "/", "."}

InitValidate ==
    InitAt("validate", StringsUpTo(ValidationAlphabet, MaxNameLen), {NoFlags},
           {TemplatesRootWith(Folders, {}, {})}, {DiskWith({})})

SpecValidate == InitValidate /\ [][NextValidate]_vars

----------------------------------------------------------------------------
(* Vocabulary of the claims *)

Exited(p) == pc[p] = "exited"
Succeeded(p) == pc[p] = "exited" /\ exitCode[p] = 0
Printed(p, line) == \E i \in 1..Len(out[p]) : out[p][i] = line
Spawned(p, command) == \E i \in 1..Len(children[p]) : children[p][i].command = command
Asked(p, question) == \E i \in 1..Len(prompts[p]) : prompts[p][i] = question

(* the steps before the directory check (no write is due yet) *)
BeforeDirectoryCheck ==
    {"name", "promptName", "checkName", "template", "promptTemplate", "config", "dirCheck",
     "v2.name", "v2.promptName", "v2.template", "v2.promptTemplate", "v2.config",
     "v2.dirCheck", "v1.dirCheck"}

----------------------------------------------------------------------------
(* C1 - No overwrite: an invocation (of any of the three command lines)
   whose target directory was there before the run never gets past the
   directory check: it makes no filesystem write and spawns no child
   process, the directory's files stay as they were, and when it exits the
   exit code is not 0. *)
C1_NoOverwrite ==
    \A p \in Procs :
        TargetDir(p) \in disk0.dirs =>
            /\ pc[p] \in BeforeDirectoryCheck \cup {"catch", "exited"}
            /\ writes[p] = <<>>
            /\ children[p] = <<>>
            /\ disk = disk0
            /\ TreeOf(disk, TargetDir(p)) = TreeOf(disk0, TargetDir(p))
            /\ Exited(p) => exitCode[p] # 0

(* an invocation has been refused at the directory check *)
C1_Witness ==
    \E p \in Procs :
        /\ Exited(p)
        /\ TargetDir(p) \in disk0.dirs
        /\ Printed(p, "Directory already exists")
        /\ TreeOf(disk0, TargetDir(p)) # {}

----------------------------------------------------------------------------
(* Vocabulary of the copy claims *)

ExcludedNames == {NodeModules, DotGit, Dist}
HasExcludedSegment(path) == \E i \in 1..Len(path) : path[i] \in ExcludedNames
Copied(p) == \E i \in 1..Len(writes[p]) : writes[p][i].op = "copy"
TemplateTree(p) == TreeOf(templatesRoot, TemplateConfig(p).folder)
TargetTree(p) == TreeOf(disk, TargetDir(p))

(* C2 - Faithful copy, inclusion: after a successful scaffold every template
   file whose path has no segment equal to node_modules, .git or dist is in
   the target at the same path with the same content (package.json, which
   the patch rewrites, left aside). *)
C2_FaithfulCopyInclusion ==
    \A p \in Procs :
        Succeeded(p) =>
            \A f \in TemplateTree(p) :
                (~HasExcludedSegment(f[1]) /\ f[1] # <<PackageJson>>) => f \in TargetTree(p)

(* C3 - Faithful copy, exclusion: once the copy is made, no template file
   whose path has a segment equal to node_modules, .git or dist, at any
   depth, is in the target. *)
C3_FaithfulCopyExclusion ==
    \A p \in Procs :
        Copied(p) =>
            \A f \in TemplateTree(p) :
                HasExcludedSegment(f[1]) => ~HasFile(TargetTree(p), f[1])

(* a scaffold succeeded from a template with excluded directories below
   its top level, and copied a file beside them *)
C3_Witness ==
    \E p \in Procs :
        /\ Succeeded(p)
        /\ HasFile(TemplateTree(p), <<Src, NodeModules, AJs>>)
        /\ HasFile(TemplateTree(p), <<Lib, Dist, AJs>>)
        /\ HasFile(TemplateTree(p), <<DotGit, AJs>>)
        /\ HasFile(TargetTree(p), <<Src, AJs>>)

(* C4 - Manifest patch: after a successful scaffold from a template with a
   package.json, the target's package.json is JSON whose name is the
   project name as requested, character for character, and whose other
   top-level fields are those of the template's package.json, each with
   its value. *)
C4_ManifestPatch ==
    \A p \in Procs :
        (Succeeded(p) /\ HasFile(TemplateTree(p), <<PackageJson>>)) =>
            /\ HasFile(TargetTree(p), <<PackageJson>>)
            /\ LET original == ContentAt(TemplateTree(p), <<PackageJson>>)
                   patched == ContentAt(TargetTree(p), <<PackageJson>>)
               IN  /\ original.json
                   /\ patched.json
                   /\ "name" \in Keys(ReadJson(patched))
                   /\ ValueOf(ReadJson(patched), "name") = projectName[p]
                   /\ ~FalsyName(args[p].projectName) => projectName[p] = args[p].projectName
                   /\ Keys(ReadJson(patched)) \ {"name"} = Keys(ReadJson(original)) \ {"name"}
                   /\ \A k \in Keys(ReadJson(original)) \ {"name"} :
                         ValueOf(ReadJson(patched), k) = ValueOf(ReadJson(original), k)

(* a scaffold named "A-" succeeded from a template whose package.json
   repeats its keys *)
C4_Witness ==
    \E p \in Procs :
        /\ Succeeded(p)
        /\ args[p].projectName = <<"A", "-">>
        /\ HasFile(TemplateTree(p), <<PackageJson>>)
        /\ ContentAt(TemplateTree(p), <<PackageJson>>) = ManifestRepeated

----------------------------------------------------------------------------
(* C5 - Template key precedence: when --template names a catalog key, the
   copy is made from that key's folder, whatever shorthand flags are given
   with it. *)
C5_ExplicitTemplateWins ==
    \A p \in Procs :
        Options(p).template \in DOMAIN templates =>
            \A i \in 1..Len(writes[p]) :
                writes[p][i].op = "copy" =>
                    writes[p][i].arg = templates[Options(p).template].folder

(* C6 - Install failure is not fatal: an invocation whose npm install ended
   with a status other than 0 still attempts git init when --git is given,
   prints the success summary and exits with code 0. *)
C6_InstallFailureNonFatal ==
    \A p \in Procs :
        (Exited(p) /\ \E i \in 1..Len(children[p]) :
                         /\ children[p][i].command = "npm install"
                         /\ children[p][i].status # 0) =>
            /\ exitCode[p] = 0
            /\ Printed(p, "created successfully")
            /\ Options(p).git => Spawned(p, "git init")

(* C7 - Git steps are best effort: an invocation that started git init has,
   when it exits, run init, add and commit in that order whatever their
   statuses, printed the success summary and exited with code 0. *)
C7_GitBestEffort ==
    \A p \in Procs :
        (Exited(p) /\ Spawned(p, "git init")) =>
            /\ \E i \in 1..Len(children[p]) :
                  /\ i + 2 <= Len(children[p])
                  /\ children[p][i].command = "git init"
                  /\ children[p][i + 1].command = "git add ."
                  /\ children[p][i + 2].command = "git commit"
            /\ exitCode[p] = 0
            /\ Printed(p, "created successfully")

(* C8 - An invalid positional name is fatal before any mutation: an
   invocation whose positional name is not empty and has a character
   outside [A-Za-z0-9_-] is never asked anything, writes nothing, spawns
   nothing, keeps the name as given, and exits with code 1 after the one
   line that reports the invalid name. *)
NameCharacters == LowerCase \cup UpperCase \cup Digits \cup {"_", "-"}
IsBadPositionalName(n) ==
    /\ n # undefinedName
    /\ n # <<>>
    /\ \E i \in 1..Len(n) : n[i] \notin NameCharacters

C8_InvalidNameFatal ==
    \A p \in Procs :
        IsBadPositionalName(args[p].projectName) =>
            /\ pc[p] \in {"name", "checkName", "exited"}
            /\ projectName[p] = args[p].projectName
            /\ prompts[p] = <<>>
            /\ writes[p] = <<>>
            /\ children[p] = <<>>
            /\ disk = disk0
            /\ Exited(p) => (exitCode[p] = 1 /\ out[p] = <<"Invalid project name">>)

(* the invocation named "a/" (one good character, one bad) has exited *)
C8_Witness ==
    \E p \in Procs :
        /\ Exited(p)
        /\ args[p].projectName = <<"a", "/">>
        /\ ~Options(p).yes

(* C9 - Skip-prompts mode: with --yes nothing is ever asked; an absent name
   becomes "my-app"; with no template flag the key becomes "javascript";
   npm install is spawned only with --install and git init only with
   --git, and an invocation that got past the install step (the git step)
   has spawned npm install (git init) exactly when the flag was given. *)
AfterInstallStep == {"git", "promptGit", "gitInit", "gitAdd", "gitCommit", "summary"}

C9_SkipPrompts ==
    \A p \in Procs :
        Options(p).yes =>
            /\ prompts[p] = <<>>
            /\ pc[p] \notin {"promptName", "promptTemplate", "promptInstall", "promptGit"}
            /\ (args[p].projectName = undefinedName /\ pc[p] \notin {"name", "checkName"})
                  => projectName[p] = MyApp
            /\ (SelectFromFlags(Options(p)) = undefined /\ Printed(p, "Creating React app"))
                  => selectedTemplate[p] = "javascript"
            /\ Spawned(p, "npm install") => Options(p).install
            /\ Spawned(p, "git init") => Options(p).git
            /\ (pc[p] \in AfterInstallStep \/ Succeeded(p))
                  => (Spawned(p, "npm install") <=> Options(p).install)
            /\ (pc[p] = "summary" \/ Succeeded(p))
                  => (Spawned(p, "git init") <=> Options(p).git)

(* a --yes --install invocation with no name, no template flag and no --git
   has succeeded *)
C9_Witness ==
    \E p \in Procs :
        /\ Succeeded(p)
        /\ Options(p).yes /\ Options(p).install /\ ~Options(p).git
        /\ args[p].projectName = undefinedName
        /\ SelectFromFlags(Options(p)) = undefined
        /\ Copied(p)

(* C10 - Unresolvable template under --yes: when --yes is given and the
   flags resolve no catalog key, the handler goes on with the key
   "javascript" once it has resolved the template. *)
C10_YesFallsBackToDefault ==
    \A p \in Procs :
        (/\ Options(p).yes
         /\ SelectFromFlags(Options(p)) \notin DOMAIN templates
         /\ Printed(p, "Creating React app")) =>
            /\ selectedTemplate[p] = "javascript"
            /\ Printed(p, "Using template")

----------------------------------------------------------------------------
(* C11 - Missing template source: an invocation that resolved a catalog key
   whose folder is not in the templates directory never copies, never
   patches a manifest and never spawns a child process; the one change it
   makes to the working directory is the new, empty target directory; once
   that directory is made it exits with code 1 after printing the line that
   names the key and the expected path and the line that lists the catalog
   keys. *)
TemplateResolved(p) ==
    pc[p] \in {"dirCheck", "ensureDir", "templateCheck", "copy", "packageJson",
               "install", "promptInstall", "npmInstall", "git", "promptGit",
               "gitInit", "gitAdd", "gitCommit", "summary"}
    \/ (pc[p] \in {"catch", "exited"} /\ Printed(p, "Using template"))

SourceMissing(p) ==
    /\ TemplateResolved(p)
    /\ selectedTemplate[p] \in DOMAIN templates
    /\ templates[selectedTemplate[p]].folder \notin templatesRoot.dirs

MadeDirectory(p) == \E i \in 1..Len(writes[p]) : writes[p][i].op = "ensureDir"

C11_MissingTemplateSource ==
    \A p \in Procs :
        SourceMissing(p) =>
            /\ pc[p] \in {"dirCheck", "ensureDir", "templateCheck", "catch", "exited"}
            /\ \A i \in 1..Len(writes[p]) : writes[p][i].op = "ensureDir"
            /\ children[p] = <<>>
            /\ disk.files = disk0.files
            /\ disk.dirs \in {disk0.dirs, disk0.dirs \cup {TargetDir(p)}}
            /\ MadeDirectory(p) => TargetTree(p) = {}
            /\ (Exited(p) /\ MadeDirectory(p)) =>
                  /\ exitCode[p] = 1
                  /\ Printed(p, "Template " \o selectedTemplate[p] \o " not found at <package>/templates/"
                                  \o templates[selectedTemplate[p]].folder)
                  /\ Printed(p, "Available templates: jsx-basic, javascript, typescript")
                  /\ ~Printed(p, "created successfully")

(* the key javascript was chosen, its folder is missing, the target
   directory has been made and the invocation has exited *)
C11_Witness ==
    \E p \in Procs :
        /\ Exited(p)
        /\ SourceMissing(p)
        /\ selectedTemplate[p] = "javascript"
        /\ MadeDirectory(p)
        /\ TargetDir(p) \in disk.dirs \ disk0.dirs

----------------------------------------------------------------------------
(* C12 - Ordering of the post-scaffold actions: a child process is started
   only from the install and git steps, that is after the copy was made and
   the package.json step is over (the file, if there is one, carries the
   project name); nothing is written to the file system once a child has
   been started; and when git init starts, every npm install of the
   invocation has already ended and none starts afterwards. *)
GitCommands == {"git init", "git add .", "git commit"}

ManifestStepOver(p) ==
    HasFile(TargetTree(p), <<PackageJson>>) =>
        /\ ContentAt(TargetTree(p), <<PackageJson>>).json
        /\ ValueOf(ReadJson(ContentAt(TargetTree(p), <<PackageJson>>)), "name") = projectName[p]

C12_PostScaffoldOrder ==
    [][\A p \in Procs :
          /\ children'[p] # children[p] =>
                /\ pc[p] \in {"npmInstall", "gitInit", "gitAdd", "gitCommit"}
                /\ Copied(p)
                /\ ManifestStepOver(p)
                /\ writes'[p] = writes[p]
                /\ disk' = disk
                /\ Len(children'[p]) = Len(children[p]) + 1
                /\ children'[p][Len(children'[p])].command = "npm install" =>
                      \A i \in 1..Len(children[p]) : children[p][i].command \notin GitCommands
          /\ writes'[p] # writes[p] => children[p] = <<>>
      ]_vars

(* an invocation ran npm install and then the three git commands, and
   succeeded *)
C12_Witness ==
    \E p \in Procs :
        /\ Succeeded(p)
        /\ Len(children[p]) = 4
        /\ children[p][1].command = "npm install"
        /\ children[p][2].command = "git init"
        /\ children[p][4].command = "git commit"
        /\ HasFile(TargetTree(p), <<PackageJson>>)

----------------------------------------------------------------------------
(* C13 - No child process unless requested: an invocation without --install
   that was not asked, or answered no, never spawns npm install, and one
   without --git that was not asked, or answered no, never spawns a git
   command.  When such an invocation (neither requested) has a template
   whose folder is there with a package.json that is JSON, a target
   directory that was not there, and no error is thrown, it exits with
   code 0, the directory made, the package.json carrying the project name,
   and no child process spawned. *)
AnsweredYes(p, question) ==
    \E i \in 1..Len(answers[p]) : answers[p][i] = [name |-> question, value |-> TRUE]

ShouldInstallDependencies(p) == Options(p).install \/ AnsweredYes(p, "install")
ShouldInitGit(p) == Options(p).git \/ AnsweredYes(p, "git")

ValidTemplate(p) ==
    /\ selectedTemplate[p] \in DOMAIN templates
    /\ templates[selectedTemplate[p]].folder \in templatesRoot.dirs
    /\ HasFile(TemplateTree(p), <<PackageJson>>)
    /\ ContentAt(TemplateTree(p), <<PackageJson>>).json

C13_NoChildUnlessRequested ==
    \A p \in Procs :
        /\ ~ShouldInstallDependencies(p) => ~Spawned(p, "npm install")
        /\ ~ShouldInitGit(p) => \A c \in GitCommands : ~Spawned(p, c)
        /\ (/\ Exited(p)
            /\ ~ShouldInstallDependencies(p)
            /\ ~ShouldInitGit(p)
            /\ NameRegexTest(projectName[p])
            /\ TemplateResolved(p)
            /\ ValidTemplate(p)
            /\ TargetDir(p) \notin disk0.dirs
            /\ error[p] = undefined) =>
              /\ exitCode[p] = 0
              /\ children[p] = <<>>
              /\ TargetDir(p) \in disk.dirs
              /\ HasFile(TargetTree(p), <<PackageJson>>)
              /\ ValueOf(ReadJson(ContentAt(TargetTree(p), <<PackageJson>>)), "name")
                    = projectName[p]

(* an invocation without --install, --git or --yes answered no to both
   confirmations and succeeded *)
C13_Witness ==
    \E p \in Procs :
        /\ Succeeded(p)
        /\ ~Options(p).install /\ ~Options(p).git /\ ~Options(p).yes
        /\ Asked(p, "install") /\ Asked(p, "git")
        /\ ~ShouldInstallDependencies(p) /\ ~ShouldInitGit(p)
        /\ answers[p] = <<[name |-> "install", value |-> FALSE],
                          [name |-> "git", value |-> FALSE]>>

----------------------------------------------------------------------------
(* C14 - No success after a failed copy: once fs.copy, fs.readJson or
   fs.writeJson has thrown, the invocation is in its catch block or has
   exited; the success line is never printed, no child process is ever
   spawned, and the exit code is 1, after the line that reports the
   error. *)
CopyFailed(p) == \E i \in 1..Len(writes[p]) : writes[p][i].op = "copy failed"
ReadJsonFailed(p) == error[p] = "SyntaxError"
WriteJsonFailed(p) == error[p] = "EIO" /\ Copied(p)

C14_NoSuccessAfterFailedCopy ==
    \A p \in Procs :
        (CopyFailed(p) \/ ReadJsonFailed(p) \/ WriteJsonFailed(p)) =>
            /\ pc[p] \in {"catch", "exited"}
            /\ ~Printed(p, "created successfully")
            /\ children[p] = <<>>
            /\ Exited(p) => (exitCode[p] = 1 /\ Printed(p, "Error creating project"))

(* the copy threw after it had written a file, and the invocation exited *)
C14_Witness ==
    \E p \in Procs :
        /\ Exited(p)
        /\ CopyFailed(p)
        /\ error[p] = "EIO"
        /\ TargetTree(p) # {}

----------------------------------------------------------------------------
(* C15 - Absent manifest is skipped with a warning: an invocation that has
   exited after a copy that left no package.json in the target has written
   no package.json, has printed, between the line of the copy and the first
   line of a later step, a line about the skipped step, and exits as it
   would have with the manifest patched: with code 0 unless a later step
   threw. *)
LaterStepLines ==
    {"Installing dependencies", "Initializing git repository",
     "created successfully", "Error creating project"}

ManifestAbsent(p) ==
    /\ Copied(p)
    /\ pc[p] \notin {"copy", "packageJson"}
    /\ ~HasFile(TargetTree(p), <<PackageJson>>)

WarnedAfterCopy(p) ==
    \E i \in 1..(Len(out[p]) - 1) :
        /\ out[p][i] = "Copying template files"
        /\ out[p][i + 1] \notin LaterStepLines

C15_AbsentManifestWarned ==
    \A p \in Procs :
        (Exited(p) /\ ManifestAbsent(p)) =>
            /\ \A i \in 1..Len(writes[p]) : writes[p][i].op # "writeJson"
            /\ WarnedAfterCopy(p)
            /\ error[p] = undefined => (exitCode[p] = 0 /\ Printed(p, "created successfully"))

----------------------------------------------------------------------------
(* C16 - The next-steps summary reflects what was done: after a successful
   scaffold the printed next steps include the line "npm install" exactly
   when the invocation did not run npm install itself, whether the install
   came from --install or from a yes to the confirmation. *)
C16_SummaryReflectsInstall ==
    \A p \in Procs :
        Succeeded(p) =>
            (Printed(p, "npm install") <=> ~Spawned(p, "npm install"))

----------------------------------------------------------------------------
(* C17 - An empty name supplied on the command line is fatal: an invocation
   whose positional name is the empty string is never asked for a name,
   never takes the default name, writes nothing, and exits with code 1
   after the line that reports the invalid name. *)
C17_EmptyNameFatal ==
    \A p \in Procs :
        args[p].projectName = <<>> =>
            /\ pc[p] \in {"name", "checkName", "exited"}
            /\ ~Asked(p, "projectName")
            /\ projectName[p] = <<>>
            /\ writes[p] = <<>>
            /\ Exited(p) => (exitCode[p] = 1 /\ Printed(p, "Invalid project name"))

----------------------------------------------------------------------------
(* C18 - Name validation is a pure, deterministic predicate: on every
   string the test of the name accepts exactly when the string is not empty
   and all its characters are letters, digits, "_" or "-"; testing the
   string again gives the same verdict; and the validate callback of the
   prompt gives the verdict of the test. *)
InNameClass(s) ==
    /\ s # <<>>
    /\ \A i \in 1..Len(s) : s[i] \in NameCharacters

C18_NameValidationPure ==
    \A p \in Procs :
        pc[p] = "tested" =>
            /\ out[p][2] = Verdict(InNameClass(projectName[p]))
            /\ out[p][3] = out[p][2]
            /\ out[p][1] = out[p][2]

----------------------------------------------------------------------------
(* C19 - Force-enable flags: with --install the install confirmation is
   never shown and an invocation that got past the install step has
   spawned npm install; with --git the git confirmation is never shown and
   an invocation that got past the git step has spawned git init; each
   whatever the other flag and --yes are. *)
C19_ForceEnableFlags ==
    \A p \in Procs :
        /\ Options(p).install =>
              /\ ~Asked(p, "install")
              /\ pc[p] # "promptInstall"
              /\ (pc[p] \in AfterInstallStep \/ Succeeded(p)) => Spawned(p, "npm install")
        /\ Options(p).git =>
              /\ ~Asked(p, "git")
              /\ pc[p] # "promptGit"
              /\ (pc[p] \in {"gitAdd", "gitCommit", "summary"} \/ Succeeded(p))
                    => Spawned(p, "git init")

(* an invocation with --git and without --install and --yes was asked about
   the install, declined, and ran the git commands unasked *)
C19_Witness ==
    \E p \in Procs :
        /\ Succeeded(p)
        /\ Options(p).git /\ ~Options(p).install /\ ~Options(p).yes
        /\ Asked(p, "install")
        /\ ~Asked(p, "git")
        /\ Spawned(p, "git commit")
        /\ ~Spawned(p, "npm install")

----------------------------------------------------------------------------
(* C20 - Shorthand flag resolution: whatever the order of the flags on the
   command line, once the flags are read the key is typescript if
   --typescript occurs, else javascript if --js occurs, else jsx-basic if
   --basic occurs; with a shorthand flag the template menu is not shown,
   the key stays, and the copy is made from that key's folder. *)
ShorthandKey(argv) ==
    IF Occurs(argv, "--typescript") THEN "typescript"
    ELSE IF Occurs(argv, "--js") THEN "javascript"
    ELSE "jsx-basic"

C20_ShorthandResolution ==
    \A p \in Procs :
        (/\ \E f \in ShorthandFlags : Occurs(args[p].argv, f)
         /\ (pc[p] \in {"promptTemplate", "config"} \/ TemplateResolved(p))) =>
            /\ selectedTemplate[p] = ShorthandKey(args[p].argv)
            /\ ~Asked(p, "template")
            /\ \A i \in 1..Len(writes[p]) :
                  writes[p][i].op \in {"copy", "copy failed"} =>
                      writes[p][i].arg = templates[ShorthandKey(args[p].argv)].folder

(* --basic --js --typescript, in that order, scaffolded from the TypeScript
   folder *)
C20_Witness ==
    \E p \in Procs :
        /\ Succeeded(p)
        /\ args[p].argv = <<"--basic", "--js", "--typescript">>
        /\ selectedTemplate[p] = "typescript"
        /\ \E i \in 1..Len(writes[p]) :
              writes[p][i] = [op |-> "copy", arg |-> "template-tsx"]

----------------------------------------------------------------------------
(* C21 - An unresolved template without --yes is asked for: when --yes is
   not given and the flags resolve no catalog key (no template flag, or
   --template with a key that is not in the catalog), then once the flags
   are read the template menu has been shown, the key in use after the menu
   is a catalog key, and the invocation does not end on a TypeError. *)
FlagsRead(p) ==
    pc[p] \in {"promptTemplate", "config"} \/ Printed(p, "Creating React app")

C21_UnresolvedTemplateAsked ==
    \A p \in Procs :
        (/\ ~Options(p).yes
         /\ SelectFromFlags(Options(p)) \notin DOMAIN templates
         /\ FlagsRead(p)) =>
            /\ Asked(p, "template")
            /\ pc[p] # "promptTemplate" => selectedTemplate[p] \in DOMAIN templates
            /\ error[p] # "TypeError"

----------------------------------------------------------------------------
(* C22 - Input resolution precedes all side effects: a prompt is shown, and
   a prompt is answered, only while the invocation has made no filesystem
   write; no question is open once the first write is made. *)
PromptOpen(p) ==
    pc[p] \in {"promptName", "promptTemplate", "promptInstall", "promptGit"}

C22_PromptsBeforeWrites ==
    [][\A p \in Procs :
          /\ prompts'[p] # prompts[p] => writes[p] = <<>>
          /\ answers'[p] # answers[p] => writes[p] = <<>>
          /\ PromptOpen(p) => writes[p] = <<>>
      ]_vars

----------------------------------------------------------------------------
(* C23 - Interactive name entry never fails outright: the name an
   invocation took from the prompt passes the project-name check, so an
   invocation that asked for the name never prints the line that reports
   an invalid name. *)
C23_PromptedNameNeverFatal ==
    \A p \in Procs :
        (Asked(p, "projectName") /\ pc[p] # "promptName") =>
            /\ NameRegexTest(projectName[p])
            /\ ~Printed(p, "Invalid project name")

----------------------------------------------------------------------------
(* C24 - Check-then-create race: the existence check and the creation of
   the target directory are separate steps.  Passing the check changes
   nothing on disk, so it reserves nothing; the creation that follows
   succeeds whether or not the directory has been made in the meantime and
   leaves the files in it as they are; and two invocations that both
   succeeded on one name both found the directory absent and both made the
   directory, copied into it and rewrote its package.json. *)
SameTarget(p, q) == p # q /\ TargetDir(p) = TargetDir(q)
Patched(p) == \E i \in 1..Len(writes[p]) : writes[p][i].op = "writeJson"

C24_CheckThenCreate ==
    [][\A p \in RaceProcs :
          /\ (pc[p] = "dirCheck" /\ pc'[p] = "ensureDir") =>
                /\ disk' = disk
                /\ TargetDir(p) \notin disk'.dirs
          /\ (pc[p] = "ensureDir" /\ pc'[p] = "templateCheck") =>
                /\ TargetDir(p) \in disk'.dirs
                /\ disk'.files = disk.files
          /\ \A q \in RaceProcs :
                (SameTarget(p, q) /\ Succeeded(p) /\ Succeeded(q)) =>
                    /\ TargetDir(p) \notin disk0.dirs
                    /\ MadeDirectory(p) /\ Copied(p) /\ Patched(p)
      ]_vars

(* both invocations, on the name "a-", passed the check, copied, rewrote
   package.json and reported success *)
C24_Witness ==
    /\ \A p \in RaceProcs :
          /\ Succeeded(p)
          /\ projectName[p] = <<"a", "-">>
          /\ MadeDirectory(p) /\ Copied(p) /\ Patched(p)
          /\ Printed(p, "created successfully")

----------------------------------------------------------------------------
(* C25 - No rollback: no step removes a directory or a file; an invocation
   that made its target directory and then failed leaves the directory in
   place when it exits; and an invocation on the same name that makes its
   existence check after that exit ends there, with exit code 1, having
   written nothing and changing nothing. *)
FilePlaces(fs) == {<<f[1], f[2]>> : f \in fs.files}
FailedAfterCreate(p) == Exited(p) /\ exitCode[p] # 0 /\ MadeDirectory(p)

C25_NoRollback ==
    [][/\ disk.dirs \subseteq disk'.dirs
       /\ FilePlaces(disk) \subseteq FilePlaces(disk')
       /\ \A p \in RaceProcs :
             /\ FailedAfterCreate(p) => TargetDir(p) \in disk.dirs
             /\ \A q \in RaceProcs :
                   (/\ FailedAfterCreate(p)
                    /\ SameTarget(p, q)
                    /\ pc[q] = "dirCheck"
                    /\ pc'[q] # "dirCheck") =>
                       /\ pc'[q] = "exited"
                       /\ exitCode'[q] = 1
                       /\ writes'[q] = <<>>
                       /\ disk' = disk
      ]_vars

(* the first invocation failed after a partial copy; the second, on the
   same name, was refused at the existence check; the partial copy is
   still there *)
C25_Witness ==
    /\ FailedAfterCreate("cli")
    /\ CopyFailed("cli")
    /\ TargetTree("cli") # {}
    /\ TargetDir("cli") \notin disk0.dirs
    /\ SameTarget("cli", "cli2")
    /\ Exited("cli2")
    /\ exitCode["cli2"] = 1
    /\ writes["cli2"] = <<>>
    /\ Printed("cli2", "Directory already exists")

----------------------------------------------------------------------------
(* C26 - Linear control flow and termination: the handler goes through its
   phases (resolve name, validate name, resolve template, existence check,
   copy, manifest patch, install, git, summary, then the catch block and
   the exit) in that order only: no step takes it back to an earlier
   phase, so no phase is entered twice and none is retried.  When every
   prompt is answered with an accepted input and every awaited call and
   child process ends, the invocation ends, with exit code 0 or 1. *)
PhaseOf(label) ==
    CASE label \in {"name", "promptName"} -> 1
      [] label = "checkName" -> 2
      [] label \in {"template", "promptTemplate", "config"} -> 3
      [] label \in {"dirCheck", "ensureDir", "templateCheck"} -> 4
      [] label = "copy" -> 5
      [] label = "packageJson" -> 6
      [] label \in {"install", "promptInstall", "npmInstall"} -> 7
      [] label \in {"git", "promptGit", "gitInit", "gitAdd", "gitCommit"} -> 8
      [] label = "summary" -> 9
      [] label = "catch" -> 10
      [] label = "exited" -> 11

C26_LinearAndTerminates ==
    /\ [][\A p \in Procs :
             /\ PhaseOf(pc'[p]) >= PhaseOf(pc[p])
             /\ pc[p] = "catch" => pc'[p] \in {"catch", "exited"}
             /\ pc[p] = "exited" => pc'[p] = "exited"
         ]_vars
    /\ \A p \in Procs : <>(Exited(p) /\ exitCode[p] \in {0, 1})

(* an invocation that went through every phase, both prompts of the name
   phase and of the template phase included, and ended *)
C26_Witness ==
    \E p \in Procs :
        /\ Succeeded(p)
        /\ Asked(p, "projectName") /\ Asked(p, "template")
        /\ Copied(p) /\ Patched(p)
        /\ Spawned(p, "npm install") /\ Spawned(p, "git commit")
        /\ Printed(p, "created successfully")

----------------------------------------------------------------------------
(* C27 - Error propagation: once an exception has been thrown inside the
   handler (by a prompt, a filesystem call, the JSON parser or a child
   process) the handler is in its catch block or has exited; it never
   exits with code 0 and never without the line "Error creating project";
   and it does exit, with code 1 and that line printed. *)
Thrown(p) == error[p] # undefined
ReportedFatal(p) ==
    Exited(p) /\ exitCode[p] = 1 /\ Printed(p, "Error creating project")

C27_ErrorPropagation ==
    /\ [](\A p \in Procs :
             Thrown(p) =>
                 /\ pc[p] \in {"catch", "exited"}
                 /\ Exited(p) => ReportedFatal(p))
    /\ \A p \in Procs : Thrown(p) ~> ReportedFatal(p)

(* the install confirmation rejected after the copy and the rewrite of
   package.json: reported, exit code 1 *)
C27_Witness ==
    \E p \in Procs :
        /\ error[p] = "PromptError"
        /\ Asked(p, "install")
        /\ Copied(p) /\ Patched(p)
        /\ ReportedFatal(p)

----------------------------------------------------------------------------
(* C28 - Write footprint: no step changes the templates directory; no step
   adds, removes or changes a directory or a file outside the target
   directory; every change of the disk is one of the tool's three writes
   (the directory made, the copy, the rewrite of package.json); and once
   the copy is made, every file of the target other than its root
   package.json has the bytes of the template's file and keeps them. *)
WriteOps == {"ensureDir", "copy", "copy failed", "writeJson"}

C28_WriteFootprint ==
    [][\A p \in Procs :
          /\ templatesRoot' = templatesRoot
          /\ \A d \in (disk.dirs \cup disk'.dirs) \ {projectName'[p]} :
                /\ d \in disk.dirs /\ d \in disk'.dirs
                /\ TreeOf(disk', d) = TreeOf(disk, d)
          /\ disk' # disk =>
                /\ Len(writes'[p]) = Len(writes[p]) + 1
                /\ writes'[p][Len(writes'[p])].op \in WriteOps
                /\ pc[p] \in {"ensureDir", "copy", "packageJson"}
          /\ Copied(p) =>
                \A f \in TargetTree(p) :
                    f[1] # <<PackageJson>> =>
                        /\ f \in TemplateTree(p)
                        /\ f \in TreeOf(disk', TargetDir(p))
      ]_vars

(* a scaffold made beside two other projects from a template with files and
   a package.json: the package.json of the target differs from the
   template's, the other files do not *)
C28_Witness ==
    \E p \in Procs :
        /\ Succeeded(p)
        /\ OtherDirs \subseteq disk.dirs
        /\ Patched(p)
        /\ HasFile(TargetTree(p), <<Src, AJs>>)
        /\ ContentAt(TargetTree(p), <<PackageJson>>) # ContentAt(TemplateTree(p), <<PackageJson>>)
        /\ TargetTree(p) \ TemplateTree(p) =
              {<<(<<PackageJson>>), ContentAt(TargetTree(p), <<PackageJson>>)>>}

----------------------------------------------------------------------------
(* C29 - Target containment: whenever the tool has written anything, the
   project name is not empty, every character of it is a letter, a digit,
   "_" or "-" (so none is "/" or "."), and path.join(cwd, name) is the
   directory of that name directly below the working directory. *)
C29_TargetContainment ==
    \A p \in Procs :
        writes[p] # <<>> =>
            /\ projectName[p] # <<>>
            /\ \A i \in 1..Len(projectName[p]) :
                  /\ projectName[p][i] \in NameCharacters
                  /\ projectName[p][i] \notin {"/", "."}
            /\ PathJoin(Cwd, projectName[p]) = Append(Cwd, projectName[p])

(* the directory was made for the positional name "a_", while the
   invocations named "..", "a/" or "/a" are in the same state space *)
C29_Witness ==
    \E p \in Procs :
        /\ MadeDirectory(p)
        /\ args[p].projectName = <<"a", "_">>
        /\ PathJoin(Cwd, projectName[p]) = << <<"h">>, <<"w">>, <<"a", "_">> >>
        /\ PathJoin(Cwd, <<".", ".">>) = << <<"h">> >>
        /\ PathJoin(Cwd, <<"a", "/">>) = << <<"h">>, <<"w">>, <<"a">> >>

----------------------------------------------------------------------------
(* C30 - Catalog membership at copy time: once an invocation is at the
   existence check of its target directory, or past it, the key in use is
   one of the catalog keys, and every copy it makes, complete or not, is
   made from the folder of that key. *)
CopiesFromFolderOfKey(p) ==
    \A i \in 1..Len(writes[p]) :
        writes[p][i].op \in {"copy", "copy failed"} =>
            /\ selectedTemplate[p] \in DOMAIN templates
            /\ writes[p][i].arg = templates[selectedTemplate[p]].folder

C30_CatalogAtCopy ==
    \A p \in Procs :
        (TemplateResolved(p) \/ MadeDirectory(p)) =>
            /\ selectedTemplate[p] \in DOMAIN templates
            /\ CopiesFromFolderOfKey(p)

====
